---- MODULE Spec2Model ----
(***************************************************************************)
(* Model of gym_ma_toy/envs/coop/game.py: the World of the team catcher    *)
(* game.  One World object is modelled field by field; reset() and         *)
(* update() are one action each.  A second World built with the same       *)
(* constructor arguments (twin) is used to compare two placements.         *)
(***************************************************************************)
EXTENDS Integers, Sequences, FiniteSets, TLC

\* ---------------------------------------------------------------- bounds
MaxSize == 4
MaxAgents == 2
MaxTargets == 2
MaxSeed == 1
MaxEntries == 2
MaxScanSize == 3
MaxHeldTicks == 2

\* ------------------------------------------------------- program constants
NOOP == 0
UP == 1
DOWN == 2
LEFT == 3
RIGHT == 4

EMPTY == 0
AGENT == 1
TARGET == 2

VARIABLES
  seed,            \* World.seed
  size,            \* World.size
  nb_agents,       \* World.nb_agents
  nb_targets,      \* World.nb_targets
  targets_alive,   \* World.targets_alive
  map,             \* contents of the array World.map refers to
  agents,          \* World.agents: name -> [id, position]
  targets,         \* World.targets: list of Target positions
  state,           \* World.state / World.agent_position (the projection)
  last,            \* the last call made on the World: which one, whether
                   \* it returned normally (ok), the entry of a one-entry
                   \* joint action and where its agent stood (entry, from),
                   \* targets_alive before the call's capture scan
  twin,            \* a second World constructed with the same arguments
  tick,            \* the joint action of the last update() and where the
                   \* agents stood before it, where the specification
                   \* records them
  held             \* a value a caller got from get_state and kept: the
                   \* dict (state), what its grid showed when it was read
                   \* (grid) and the update() calls made since (ticks)

vars == <<seed, size, nb_agents, nb_targets, targets_alive, map, agents,
          targets, state, last, twin, tick, held>>

\* ------------------------------------------------------------ data model
\* Action codes a caller can put in a joint action: the five of Actions and
\* one integer outside the enumeration.
ActionCodes == NOOP .. (RIGHT + 1)

\* f"agent_{i+1}"
AgentName(i) == "agent_" \o ToString(i)

\* the index set of a size x size array
Cells(s) == (0 .. (s - 1)) \X (0 .. (s - 1))

\* A size x size array is kept as numpy keeps it, row after row in one
\* buffer: element [i, j] is element i*size + j of the buffer (the buffer
\* is a sequence, so its indices start at 1).
Idx(s, pos) == pos[1] * s + pos[2] + 1

\* array[pos]
At(s, array, pos) == array[Idx(s, pos)]

\* np.zeros((size, size))
Zeros(s) == [k \in 1 .. (s * s) |-> EMPTY]

\* the empty dict
EmptyDict == [n \in {} |-> <<>>]

\* self.state before the first _update_position_state: the attribute does
\* not exist.  Afterwards state["map"] is an array object: either the very
\* object self.map refers to (map_is_self_map) or an array self.map has
\* been rebound away from (detached_map keeps its contents).
NoState ==
  [defined |-> FALSE, map_is_self_map |-> FALSE, detached_map |-> EmptyDict,
   agent_position |-> EmptyDict]

\* no joint action is on record
NoTick == [recorded |-> FALSE, joint_action |-> <<>>, before |-> EmptyDict]

\* no value of get_state has been kept
NoHeld == [taken |-> FALSE, state |-> NoState, grid |-> <<>>, ticks |-> 0]

\* get_state["map"], read through the reference
ProjectedGrid ==
  IF state.map_is_self_map THEN map ELSE state.detached_map

\* ["map"] of the value the caller kept, read through the reference now
HeldGrid ==
  IF held.state.map_is_self_map THEN map ELSE held.state.detached_map

\* ------------------------------------------------------------- placement
\* all_positions of reset(): j is the outer loop, i the inner one
all_positions(s) ==
  IF s - 2 > 0
  THEN [k \in 1 .. ((s - 2) * (s - 2)) |->
          <<1 + ((k - 1) % (s - 2)), 1 + ((k - 1) \div (s - 2))>>]
  ELSE <<>>

\* length of np.arange(0, (size-2)*(size-2))
random_idx_len(s) == (s - 2) * (s - 2)

Min(a, b) == IF a < b THEN a ELSE b

\* (a variant that draws each index independently, as np.random.randint does)
ShuffleWithReplacement(s, n) ==
  [1 .. Min(n, random_idx_len(s)) -> 0 .. (random_idx_len(s) - 1)]

\* np.random.shuffle(random_idx) draws from numpy's global generator, which
\* the World never seeds: any permutation of 0..len-1 can come out.  reset()
\* reads only random_idx[0 .. nb_agents+nb_targets-1], so a draw is modelled
\* by the prefix that is read (all of it that exists when the read runs off
\* the end).

shuffle(s, n) ==
  {d \in [1 .. Min(n, random_idx_len(s)) -> 0 .. (random_idx_len(s) - 1)] :
     \A a, b \in DOMAIN d : a # b => d[a] # d[b]}

\* all_positions[random_idx[i]] for a 0-based i: IndexError when i is past
\* the end of random_idx or random_idx[i] is past the end of all_positions
PickRaises(s, draw, i) ==
  \/ i >= random_idx_len(s)
  \/ draw[i + 1] >= Len(all_positions(s))

Pick(s, draw, i) == all_positions(s)[draw[i + 1] + 1]

\* ----------------------------------------------------------- capture rule
\* (a variant that captures with a single neighbouring agent)
agent_capture_one(pixel, s, world_map) ==
  LET potential_neighborhood ==
        << <<pixel[1] + 1, pixel[2]>>, <<pixel[1] - 1, pixel[2]>>,
           <<pixel[1], pixel[2] + 1>>, <<pixel[1], pixel[2] - 1>> >>
      hit(k) ==
        LET neighbour == potential_neighborhood[k]
        IN  IF /\ 0 <= neighbour[1] /\ neighbour[1] < s
               /\ 0 <= neighbour[2] /\ neighbour[2] < s
               /\ At(s, world_map, neighbour) = AGENT
            THEN 1 ELSE 0
  IN  hit(1) + hit(2) + hit(3) + hit(4) >= 1

\* World.agent_capture
agent_capture(pixel, s, world_map) ==
  LET potential_neighborhood ==
        << <<pixel[1] + 1, pixel[2]>>, <<pixel[1] - 1, pixel[2]>>,
           <<pixel[1], pixel[2] + 1>>, <<pixel[1], pixel[2] - 1>> >>
      hit(k) ==
        LET neighbour == potential_neighborhood[k]
        IN  IF /\ 0 <= neighbour[1] /\ neighbour[1] < s
               /\ 0 <= neighbour[2] /\ neighbour[2] < s
               /\ At(s, world_map, neighbour) = AGENT
            THEN 1 ELSE 0
      n_agent_neighbour == hit(1) + hit(2) + hit(3) + hit(4)
  IN  n_agent_neighbour >= 2

\* (a variant that never scans)
_update_map_no_scan(s, m, alive) ==
  [map |-> m, targets_alive |-> alive]

\* (a variant that decrements the counter for every target it visits)
_update_map_count_every_target(s, m, alive) ==
  LET scan[a \in [k : Nat, map : Seq({EMPTY, AGENT, TARGET}),
                  targets_alive : Int]] ==
        IF a.k >= s * s
        THEN [map |-> a.map, targets_alive |-> a.targets_alive]
        ELSE IF a.map[a.k + 1] = TARGET
             THEN scan[[k |-> a.k + 1,
                        map |-> IF agent_capture(<<a.k \div s, a.k % s>>,
                                                 s, a.map)
                                THEN [a.map EXCEPT ![a.k + 1] = EMPTY]
                                ELSE a.map,
                        targets_alive |-> a.targets_alive - 1]]
             ELSE scan[[a EXCEPT !.k = a.k + 1]]
  IN  scan[[k |-> 0, map |-> m, targets_alive |-> alive]]

\* (a variant that puts an agent on the cell of the target it captures)
_update_map_mark_agent(s, m, alive) ==
  LET scan[a \in [k : Nat, map : Seq({EMPTY, AGENT, TARGET}),
                  targets_alive : Int]] ==
        IF a.k >= s * s
        THEN [map |-> a.map, targets_alive |-> a.targets_alive]
        ELSE IF /\ a.map[a.k + 1] = TARGET
                /\ agent_capture(<<a.k \div s, a.k % s>>, s, a.map)
             THEN scan[[k |-> a.k + 1,
                        map |-> [a.map EXCEPT ![a.k + 1] = AGENT],
                        targets_alive |-> a.targets_alive - 1]]
             ELSE scan[[a EXCEPT !.k = a.k + 1]]
  IN  scan[[k |-> 0, map |-> m, targets_alive |-> alive]]

\* (a variant that clears the captured target and leaves the counter alone)
_update_map_keep_count(s, m, alive) ==
  LET scan[a \in [k : Nat, map : Seq({EMPTY, AGENT, TARGET}),
                  targets_alive : Int]] ==
        IF a.k >= s * s
        THEN [map |-> a.map, targets_alive |-> a.targets_alive]
        ELSE IF /\ a.map[a.k + 1] = TARGET
                /\ agent_capture(<<a.k \div s, a.k % s>>, s, a.map)
             THEN scan[[k |-> a.k + 1,
                        map |-> [a.map EXCEPT ![a.k + 1] = EMPTY],
                        targets_alive |-> a.targets_alive]]
             ELSE scan[[a EXCEPT !.k = a.k + 1]]
  IN  scan[[k |-> 0, map |-> m, targets_alive |-> alive]]

\* World._update_map.  The two nested loops visit (i, j) row by row, which
\* is buffer order: scan[a] is the rest of the loop from its state a, where
\* a.k = i*size + j is the next element to visit, a.map the array as changed
\* so far and a.targets_alive the counter as decremented so far.
_update_map(s, m, alive) ==
  LET scan[a \in [k : Nat, map : Seq({EMPTY, AGENT, TARGET}),
                  targets_alive : Int]] ==
        IF a.k >= s * s
        THEN [map |-> a.map, targets_alive |-> a.targets_alive]
        ELSE IF /\ a.map[a.k + 1] = TARGET
                /\ agent_capture(<<a.k \div s, a.k % s>>, s, a.map)
             THEN scan[[k |-> a.k + 1,
                        map |-> [a.map EXCEPT ![a.k + 1] = EMPTY],
                        targets_alive |-> a.targets_alive - 1]]
             ELSE scan[[a EXCEPT !.k = a.k + 1]]
  IN  scan[[k |-> 0, map |-> m, targets_alive |-> alive]]

\* ------------------------------------------------------------------ reset
\* reset(), lines 108-120: the two comprehensions raise IndexError as soon as
\* one read runs off the end of random_idx or of all_positions
\* (a variant that slices random_idx[:n], which truncates instead of raising)
reset_raises_slicing(s, na, nt, draw) ==
  \E i \in 0 .. (Min(na + nt, random_idx_len(s)) - 1) :
    draw[i + 1] >= Len(all_positions(s))

reset_raises(s, na, nt, draw) ==
  \E i \in 0 .. (na + nt - 1) : PickRaises(s, draw, i)

\* agents_pos and targets_pos, as far as they can be read
agents_pos(s, na, draw) ==
  [i \in 1 .. Min(na, Len(draw)) |-> Pick(s, draw, i - 1)]

targets_pos(s, na, nt, draw) ==
  [i \in 1 .. (Min(na + nt, Len(draw)) - Min(na, Len(draw))) |->
     Pick(s, draw, Min(na, Len(draw)) + i - 1)]

\* lines 122-125: the dict of Agent objects
MakeAgents(apos) ==
  [n \in {AgentName(i) : i \in 1 .. Len(apos)} |->
     LET i == CHOOSE k \in 1 .. Len(apos) : AgentName(k) = n
     IN  [id |-> i, position |-> apos[i]]]

\* lines 129-132: agents are written first, targets over them
PlacedMap(s, apos, tpos) ==
  [n \in 1 .. (s * s) |->
     IF \E k \in 1 .. Len(tpos) : Idx(s, tpos[k]) = n THEN TARGET
     ELSE IF \E k \in 1 .. Len(apos) : Idx(s, apos[k]) = n THEN AGENT
     ELSE EMPTY]

\* what reset() assigns when it returns normally (lines 101-134)
reset(s, na, nt, draw) ==
  LET apos == agents_pos(s, na, draw)
      tpos == targets_pos(s, na, nt, draw)
      scanned == _update_map(s, PlacedMap(s, apos, tpos), nt)
  IN  [targets_alive |-> scanned.targets_alive,
       map |-> scanned.map,
       agents |-> MakeAgents(apos),
       targets |-> tpos]

\* (a variant that stores each position as (column, row))
_update_position_state_transposed(ags) ==
  [defined |-> TRUE, map_is_self_map |-> TRUE, detached_map |-> EmptyDict,
   agent_position |->
     [n \in DOMAIN ags |-> <<ags[n].position[2], ags[n].position[1]>>]]

\* World._update_position_state
_update_position_state(ags) ==
  [defined |-> TRUE, map_is_self_map |-> TRUE, detached_map |-> EmptyDict,
   agent_position |-> [n \in DOMAIN ags |-> ags[n].position]]

\* self.map = np.zeros(...) rebinds self.map: a state that referred to the
\* old array keeps referring to it
RebindMap(st, old_map) ==
  IF st.defined /\ st.map_is_self_map
  THEN [st EXCEPT !.map_is_self_map = FALSE, !.detached_map = old_map]
  ELSE st

\* --------------------------------------------------------------- movement
\* (a variant that forgets to clear the origin cell)
Move_keep_origin(s, w, agent_id, dest) ==
  [map |-> [w.map EXCEPT ![Idx(s, dest)] = AGENT],
   agents |-> [w.agents EXCEPT ![agent_id].position = dest]]

\* (a variant that leaves a target marker on the cell the agent moves off)
Move_leaves_target(s, w, agent_id, dest) ==
  [map |-> [w.map EXCEPT ![Idx(s, dest)] = AGENT,
                         ![Idx(s, w.agents[agent_id].position)] = TARGET],
   agents |-> [w.agents EXCEPT ![agent_id].position = dest]]

\* the three assignments of a successful move (e.g. lines 165-167)
Move(s, w, agent_id, dest) ==
  [map |-> [w.map EXCEPT ![Idx(s, dest)] = AGENT,
                         ![Idx(s, w.agents[agent_id].position)] = EMPTY],
   agents |-> [w.agents EXCEPT ![agent_id].position = dest]]

\* (a variant without the occupancy test)
_update_action_no_occupancy(action, agent_id, s, w) ==
  LET position == w.agents[agent_id].position
      up    == <<position[1] - 1, position[2]>>
      down  == <<position[1] + 1, position[2]>>
      left  == <<position[1], position[2] - 1>>
      right == <<position[1], position[2] + 1>>
  IN  IF action = UP /\ position[1] - 1 > 0
        THEN Move(s, w, agent_id, up)
      ELSE IF action = DOWN /\ position[1] + 1 < s
        THEN Move(s, w, agent_id, down)
      ELSE IF action = LEFT /\ position[2] - 1 > 0
        THEN Move(s, w, agent_id, left)
      ELSE IF action = RIGHT /\ position[2] + 1 < s
        THEN Move(s, w, agent_id, right)
      ELSE w

\* (a variant in which NOOP is carried out as UP)
_update_action_noop_up(action, agent_id, s, w) ==
  LET code == IF action = NOOP THEN UP ELSE action
      position == w.agents[agent_id].position
      up    == <<position[1] - 1, position[2]>>
      down  == <<position[1] + 1, position[2]>>
      left  == <<position[1], position[2] - 1>>
      right == <<position[1], position[2] + 1>>
  IN  IF code = UP /\ position[1] - 1 > 0 /\ At(s, w.map, up) = EMPTY
        THEN Move(s, w, agent_id, up)
      ELSE IF code = DOWN /\ position[1] + 1 < s /\ At(s, w.map, down) = EMPTY
        THEN Move(s, w, agent_id, down)
      ELSE IF code = LEFT /\ position[2] - 1 > 0 /\ At(s, w.map, left) = EMPTY
        THEN Move(s, w, agent_id, left)
      ELSE IF code = RIGHT /\ position[2] + 1 < s /\ At(s, w.map, right) = EMPTY
        THEN Move(s, w, agent_id, right)
      ELSE w

\* (a variant in which a code outside the enumeration is carried out as LEFT)
_update_action_other_code_left(action, agent_id, s, w) ==
  LET code == IF action \notin NOOP .. RIGHT THEN LEFT ELSE action
      position == w.agents[agent_id].position
      up    == <<position[1] - 1, position[2]>>
      down  == <<position[1] + 1, position[2]>>
      left  == <<position[1], position[2] - 1>>
      right == <<position[1], position[2] + 1>>
  IN  IF code = UP /\ position[1] - 1 > 0 /\ At(s, w.map, up) = EMPTY
        THEN Move(s, w, agent_id, up)
      ELSE IF code = DOWN /\ position[1] + 1 < s /\ At(s, w.map, down) = EMPTY
        THEN Move(s, w, agent_id, down)
      ELSE IF code = LEFT /\ position[2] - 1 > 0 /\ At(s, w.map, left) = EMPTY
        THEN Move(s, w, agent_id, left)
      ELSE IF code = RIGHT /\ position[2] + 1 < s /\ At(s, w.map, right) = EMPTY
        THEN Move(s, w, agent_id, right)
      ELSE w

\* World._update_action on w = [map, agents]
_update_action(action, agent_id, s, w) ==
  LET position == w.agents[agent_id].position
      up    == <<position[1] - 1, position[2]>>
      down  == <<position[1] + 1, position[2]>>
      left  == <<position[1], position[2] - 1>>
      right == <<position[1], position[2] + 1>>
  IN  IF action = UP /\ position[1] - 1 > 0 /\ At(s, w.map, up) = EMPTY
        THEN Move(s, w, agent_id, up)
      ELSE IF action = DOWN /\ position[1] + 1 < s /\ At(s, w.map, down) = EMPTY
        THEN Move(s, w, agent_id, down)
      ELSE IF action = LEFT /\ position[2] - 1 > 0 /\ At(s, w.map, left) = EMPTY
        THEN Move(s, w, agent_id, left)
      ELSE IF action = RIGHT /\ position[2] + 1 < s /\ At(s, w.map, right) = EMPTY
        THEN Move(s, w, agent_id, right)
      ELSE w

\* (a variant that goes through the joint action from its last entry to its
\* first)
RECURSIVE ApplyMovesReversed(_, _, _, _)
ApplyMovesReversed(joint_action, k, s, w) ==
  IF k > Len(joint_action)
  THEN [ok |-> TRUE, map |-> w.map, agents |-> w.agents]
  ELSE IF joint_action[Len(joint_action) + 1 - k].agent_id \notin DOMAIN w.agents
  THEN [ok |-> FALSE, map |-> w.map, agents |-> w.agents]
  ELSE ApplyMovesReversed(joint_action, k + 1, s,
         _update_action(joint_action[Len(joint_action) + 1 - k].action,
                        joint_action[Len(joint_action) + 1 - k].agent_id,
                        s, w))

\* the loop of update(), lines 254-255: self.agents[agent_id] raises
\* KeyError for a name that is not an agent, with the earlier moves done
RECURSIVE ApplyMoves(_, _, _, _)
ApplyMoves(joint_action, k, s, w) ==
  IF k > Len(joint_action)
  THEN [ok |-> TRUE, map |-> w.map, agents |-> w.agents]
  ELSE IF joint_action[k].agent_id \notin DOMAIN w.agents
  THEN [ok |-> FALSE, map |-> w.map, agents |-> w.agents]
  ELSE ApplyMoves(joint_action, k + 1, s,
                  _update_action(joint_action[k].action,
                                 joint_action[k].agent_id, s, w))

\* The joint actions a caller can pass: a dict, so an ordered list of at
\* most MaxEntries entries with distinct keys.  Keys are agent names and one
\* name that is not an agent; the entries behind a name that is not an agent
\* are never read, so that name comes last.
Entries(keys) == [agent_id : keys, action : ActionCodes]

KnownJointActions(n) ==
  UNION {{ja \in [1 .. k -> Entries(DOMAIN agents)] :
            \A a, b \in 1 .. k : a # b => ja[a].agent_id # ja[b].agent_id} :
         k \in 0 .. Min(n, Cardinality(DOMAIN agents))}

UnknownAgent == AgentName(Cardinality(DOMAIN agents) + 1)

UnknownJointActions(n) ==
  {Append(ja, [agent_id |-> UnknownAgent, action |-> NOOP]) :
     ja \in KnownJointActions(n - 1)}

\* ---------------------------------------------------------------- actions
NoEntry == [agent_id |-> "", action |-> NOOP]

\* World.__init__, lines 77-84
Init ==
  /\ seed \in 0 .. MaxSeed
  /\ size \in 1 .. MaxSize
  /\ nb_agents \in 0 .. MaxAgents
  /\ nb_targets \in 0 .. MaxTargets
  /\ targets_alive = nb_targets
  /\ map = Zeros(size)
  /\ agents = EmptyDict
  /\ targets = <<>>
  /\ state = NoState
  /\ last = [op |-> "init", ok |-> TRUE, entry |-> NoEntry, from |-> <<>>,
             alive_before |-> nb_targets]
  /\ twin = [done |-> FALSE, agents |-> EmptyDict, targets |-> <<>>]
  /\ tick = NoTick
  /\ held = NoHeld

\* World.reset
Reset ==
  \E draw \in shuffle(size, nb_agents + nb_targets) :
    \E raised \in {reset_raises(size, nb_agents, nb_targets, draw)} :
      /\ last' = [op |-> "reset", ok |-> ~raised, entry |-> NoEntry,
                  from |-> <<>>, alive_before |-> nb_targets]
      /\ IF raised
         THEN /\ targets_alive' = nb_targets
              /\ map' = Zeros(size)
              /\ state' = RebindMap(state, map)
              /\ UNCHANGED <<agents, targets>>
         ELSE \E r \in {reset(size, nb_agents, nb_targets, draw)} :
                /\ targets_alive' = r.targets_alive
                /\ map' = r.map
                /\ agents' = r.agents
                /\ targets' = r.targets
                /\ state' = _update_position_state(r.agents)
      /\ tick' = NoTick
      /\ held' = [held EXCEPT !.state = RebindMap(held.state, map)]
      /\ UNCHANGED <<seed, size, nb_agents, nb_targets, twin>>

\* World.update(joint_action), lines 254-257; entry is what last records
update(joint_action, entry) ==
  \E moved \in {ApplyMoves(joint_action, 1, size,
                           [map |-> map, agents |-> agents])} :
    /\ last' = [op |-> "update", ok |-> moved.ok, entry |-> entry,
                from |-> IF entry = NoEntry THEN <<>>
                         ELSE agents[entry.agent_id].position,
                alive_before |-> targets_alive]
    /\ agents' = moved.agents
    /\ IF moved.ok
       THEN \E scanned \in {_update_map(size, moved.map, targets_alive)} :
              /\ map' = scanned.map
              /\ targets_alive' = scanned.targets_alive
              /\ state' = _update_position_state(moved.agents)
       ELSE /\ map' = moved.map
            /\ UNCHANGED <<targets_alive, state>>
    /\ UNCHANGED <<seed, size, nb_agents, nb_targets, targets, twin>>

\* the reset() a caller must make before the first update()
FirstReset == last.op = "init" /\ Reset

\* a tick with a joint action over existing agents
Update ==
  /\ \E joint_action \in KnownJointActions(MaxEntries) :
       update(joint_action, NoEntry)
  /\ tick' = NoTick
  /\ UNCHANGED held

\* a tick with a joint action that names an agent that does not exist
UpdateUnknown ==
  /\ \E joint_action \in UnknownJointActions(MaxEntries) :
       update(joint_action, NoEntry)
  /\ tick' = NoTick
  /\ UNCHANGED held

\* a tick whose joint action has one entry, for an existing agent; last
\* records the entry
Step ==
  /\ \E e \in Entries(DOMAIN agents) : update(<<e>>, e)
  /\ tick' = NoTick
  /\ UNCHANGED held

\* a tick that is not put on record, from a state no record has been made in
Advance == ~tick.recorded /\ Update

\* the tick under observation: a joint action over existing agents, which
\* tick records.  A run is not followed past the recorded tick: every state
\* it leads to is reached by Advance as well.
Tick ==
  /\ ~tick.recorded
  /\ \E joint_action \in KnownJointActions(MaxEntries) :
       /\ update(joint_action, NoEntry)
       /\ tick' = [recorded |-> TRUE, joint_action |-> joint_action,
                   before |-> [n \in DOMAIN agents |-> agents[n].position]]
  /\ UNCHANGED held

\* get_state: the caller keeps the dict self.state refers to (the attribute
\* exists once _update_position_state has run); one value is kept
GetState ==
  /\ state.defined
  /\ ~held.taken
  /\ held' = [taken |-> TRUE, state |-> state, grid |-> ProjectedGrid,
              ticks |-> 0]
  /\ UNCHANGED <<seed, size, nb_agents, nb_targets, targets_alive, map,
                 agents, targets, state, last, twin, tick>>

\* a one-entry tick made while the caller keeps a value of get_state
StepHeld ==
  /\ held.taken
  /\ held.ticks < MaxHeldTicks
  /\ \E e \in Entries(DOMAIN agents) : update(<<e>>, e)
  /\ tick' = NoTick
  /\ held' = [held EXCEPT !.ticks = @ + 1]

\* reset() on the second World: same constructor arguments, its own shuffle
TwinReset ==
  /\ ~twin.done
  /\ \E draw \in shuffle(size, nb_agents + nb_targets) :
       /\ ~reset_raises(size, nb_agents, nb_targets, draw)
       /\ \E r \in {reset(size, nb_agents, nb_targets, draw)} :
            twin' = [done |-> TRUE, agents |-> r.agents,
                     targets |-> r.targets]
  /\ UNCHANGED <<seed, size, nb_agents, nb_targets, targets_alive, map,
                 agents, targets, state, last, tick, held>>

\* Any grid a size x size array of markers can hold, for the capture scan
\* taken on its own: targets_alive counts the targets on it.
InitScan ==
  /\ seed = 0
  /\ size \in 1 .. MaxScanSize
  /\ map \in [1 .. (size * size) -> {EMPTY, AGENT, TARGET}]
  /\ nb_agents = Cardinality({n \in 1 .. (size * size) : map[n] = AGENT})
  /\ nb_targets = Cardinality({n \in 1 .. (size * size) : map[n] = TARGET})
  /\ targets_alive = nb_targets
  /\ agents = EmptyDict
  /\ targets = <<>>
  /\ state = NoState
  /\ last = [op |-> "grid", ok |-> TRUE, entry |-> NoEntry, from |-> <<>>,
             alive_before |-> nb_targets]
  /\ twin = [done |-> FALSE, agents |-> EmptyDict, targets |-> <<>>]
  /\ tick = NoTick
  /\ held = NoHeld

\* World._update_map called on its own; last tells the first call ("scan")
\* from the calls that follow it with no move in between ("rescan")
Scan ==
  /\ \E scanned \in {_update_map(size, map, targets_alive)} :
       /\ map' = scanned.map
       /\ targets_alive' = scanned.targets_alive
  /\ last' = [op |-> IF last.op = "grid" THEN "scan" ELSE "rescan",
              ok |-> TRUE, entry |-> NoEntry, from |-> <<>>,
              alive_before |-> targets_alive]
  /\ UNCHANGED <<seed, size, nb_agents, nb_targets, agents, targets, state,
                 twin, tick, held>>

Next == Reset \/ Update

Spec == Init /\ [][Next]_vars

NextStep == FirstReset \/ Step

SpecStep == Init /\ [][NextStep]_vars

NextFail == FirstReset \/ UpdateUnknown

SpecFail == Init /\ [][NextFail]_vars

NextTwin == FirstReset \/ TwinReset

SpecTwin == Init /\ [][NextTwin]_vars

NextTick == FirstReset \/ Advance \/ Tick

SpecTick == Init /\ [][NextTick]_vars

NextHeld == FirstReset \/ GetState \/ StepHeld

SpecHeld == Init /\ [][NextHeld]_vars

NextScan == Scan

SpecScan == InitScan /\ [][NextScan]_vars

\* ------------------------------------------------------------ properties
\* size >= 3 leaves an interior, and the interior has room for every entity
ValidConfiguration ==
  size >= 3 /\ nb_agents + nb_targets <= (size - 2) * (size - 2)

\* the interior region [1, size-2] x [1, size-2]
Interior ==
  {pos \in Cells(size) : /\ 1 <= pos[1] /\ pos[1] <= size - 2
                         /\ 1 <= pos[2] /\ pos[2] <= size - 2}

\* the cells of the grid orthogonally next to pos
Orthogonal(pos) ==
  {q \in Cells(size) :
     \/ q[2] = pos[2] /\ (q[1] = pos[1] + 1 \/ q[1] = pos[1] - 1)
     \/ q[1] = pos[1] /\ (q[2] = pos[2] + 1 \/ q[2] = pos[2] - 1)}

\* the agents standing orthogonally next to pos
AgentsBeside(pos) ==
  {n \in DOMAIN agents : agents[n].position \in Orthogonal(pos)}

NonEmptyCells == {n \in 1 .. Len(map) : map[n] # EMPTY}

\* the targets reset() has just placed between two or more agents
PlacedPincered ==
  {k \in 1 .. Len(targets) : Cardinality(AgentsBeside(targets[k])) >= 2}

\* C1 (as stated): for a valid configuration, when reset() returns the grid
\* holds nb_agents + nb_targets non-empty cells and targets_alive equals
\* nb_targets: the scan of reset() removes no target.
C1_ResetRemovesNoTarget ==
  (last.op = "reset" /\ last.ok /\ ValidConfiguration) =>
    /\ Cardinality(NonEmptyCells) = nb_agents + nb_targets
    /\ targets_alive = nb_targets

\* C1 (amended): for a valid configuration, when reset() returns, the scan
\* has removed exactly the placed targets that have two or more orthogonal
\* agent neighbours: targets_alive is nb_targets minus their number, their
\* cells are EMPTY, the other targets are on the grid, and the grid holds
\* nb_agents + targets_alive non-empty cells.
C1_ResetRemovesPincered ==
  (last.op = "reset" /\ last.ok /\ ValidConfiguration) =>
    /\ targets_alive = nb_targets - Cardinality(PlacedPincered)
    /\ Cardinality(NonEmptyCells) = nb_agents + targets_alive
    /\ \A k \in 1 .. Len(targets) :
         At(size, map, targets[k]) =
           IF k \in PlacedPincered THEN EMPTY ELSE TARGET

\* a reset() that returned with a target already captured
C1_Witness ==
  /\ last.op = "reset" /\ last.ok /\ ValidConfiguration
  /\ targets_alive < nb_targets

\* the agents' and then the targets' positions, in placement order
PlacedPositions ==
  [i \in 1 .. nb_agents |-> agents[AgentName(i)].position] \o targets

\* C2: for a valid configuration reset() returns with agents agent_1 ..
\* agent_n, ids 1..n, and nb_targets targets, all at pairwise distinct cells
\* of the interior, whatever the shuffle drew and whatever came before.
C2_DistinctInteriorPlacement ==
  (last.op = "reset" /\ ValidConfiguration) =>
    /\ last.ok
    /\ DOMAIN agents = {AgentName(i) : i \in 1 .. nb_agents}
    /\ \A i \in 1 .. nb_agents : agents[AgentName(i)].id = i
    /\ Len(targets) = nb_targets
    /\ \A a, b \in 1 .. Len(PlacedPositions) :
         a # b => PlacedPositions[a] # PlacedPositions[b]
    /\ \A a \in 1 .. Len(PlacedPositions) : PlacedPositions[a] \in Interior

\* a reset() that placed several agents and a target
C2_Witness ==
  /\ last.op = "reset" /\ last.ok
  /\ nb_agents >= 2 /\ nb_targets >= 1

\* C3: targets_alive stays within 0..nb_targets, and no update() raises it.
C3_TargetsAliveBoundedNonIncreasing ==
  /\ [](0 <= targets_alive /\ targets_alive <= nb_targets)
  /\ [][last'.op = "update" => targets_alive' <= targets_alive]_vars

\* an update() whose scan captured a target
C3_Witness ==
  /\ last.op = "update" /\ last.ok
  /\ targets_alive < last.alive_before

\* C4: every agent is inside the grid, no two agents share a position and
\* no agent stands on a cell that holds a target.
C4_AgentsApartInGrid ==
  \A a \in DOMAIN agents :
    /\ agents[a].position \in Cells(size)
    /\ At(size, map, agents[a].position) # TARGET
    /\ \A b \in DOMAIN agents :
         a # b => agents[a].position # agents[b].position

\* after an update(), two agents next to each other, one of them next to a
\* live target
C4_Witness ==
  /\ last.op = "update" /\ last.ok
  /\ \E a, b \in DOMAIN agents :
       /\ agents[b].position \in Orthogonal(agents[a].position)
       /\ \E q \in Orthogonal(agents[a].position) : At(size, map, q) = TARGET

\* the cell an action aims at from pos
Destination(pos, action) ==
  CASE action = UP -> <<pos[1] - 1, pos[2]>>
    [] action = DOWN -> <<pos[1] + 1, pos[2]>>
    [] action = LEFT -> <<pos[1], pos[2] - 1>>
    [] action = RIGHT -> <<pos[1], pos[2] + 1>>
    [] OTHER -> pos

\* the coordinate of the destination along the moved axis
MovedAxis(pos, action) ==
  IF action \in {UP, DOWN} THEN Destination(pos, action)[1]
  ELSE Destination(pos, action)[2]

\* C5: a directional action whose destination has its moved-axis coordinate
\* outside [1, size-2] never changes the agent's position.
C5_BorderImpassable ==
  [][(last'.op = "update" /\ last'.entry.action \in {UP, DOWN, LEFT, RIGHT}) =>
       LET id == last'.entry.agent_id
           coord == MovedAxis(agents[id].position, last'.entry.action)
       IN  (coord < 1 \/ coord > size - 2) =>
             agents'[id].position = agents[id].position]_vars

\* the bound check of a direction, as the claim writes it
BoundCheck(pos, action) ==
  CASE action = UP -> pos[1] - 1 > 0
    [] action = DOWN -> pos[1] + 1 < size
    [] action = LEFT -> pos[2] - 1 > 0
    [] action = RIGHT -> pos[2] + 1 < size
    [] OTHER -> FALSE

\* C6: in a one-entry tick the agent moves iff its action is a direction
\* whose bound check holds and whose destination holds EMPTY; then the
\* destination becomes AGENT, the origin EMPTY and the stored position the
\* destination; otherwise nothing changes.  No error is raised, and no other
\* agent moves.
C6_MoveRule ==
  [][last'.op = "update" =>
       LET id == last'.entry.agent_id
           action == last'.entry.action
           pos == agents[id].position
           dest == Destination(pos, action)
           moves == /\ action \in {UP, DOWN, LEFT, RIGHT}
                    /\ BoundCheck(pos, action)
                    /\ At(size, map, dest) = EMPTY
       IN  /\ last'.ok
           /\ (agents'[id].position # pos) <=> moves
           /\ moves => /\ agents'[id].position = dest
                       /\ At(size, map', dest) = AGENT
                       /\ At(size, map', pos) = EMPTY
           /\ ~moves => /\ map' = map
                        /\ agents' = agents
                        /\ targets_alive' = targets_alive
           /\ \A other \in DOMAIN agents \ {id} :
                agents'[other] = agents[other]
           /\ DOMAIN agents' = DOMAIN agents]_vars

\* a one-entry tick that moved its agent one cell to the left
C6_Witness ==
  /\ last.op = "update" /\ last.ok
  /\ last.entry.action = LEFT
  /\ agents[last.entry.agent_id].position =
       <<last.from[1], last.from[2] - 1>>

\* the number of cells orthogonally next to pos that hold AGENT in grid m
AgentNeighbours(m, pos) ==
  Cardinality({q \in Orthogonal(pos) : At(size, m, q) = AGENT})

\* C7: an update() that completes removes exactly the targets that have two
\* or more orthogonal AGENT neighbours once its moves are applied (agent
\* cells are those of the grid after the tick), leaves the others in place,
\* and lowers targets_alive by the number of targets it removed.
C7_CaptureRule ==
  [][(last'.op = "update" /\ last'.ok) =>
       LET before == {pos \in Cells(size) : At(size, map, pos) = TARGET}
           removed == {pos \in before : At(size, map', pos) # TARGET}
       IN  /\ \A pos \in before :
                /\ AgentNeighbours(map', pos) >= 2 =>
                     At(size, map', pos) = EMPTY
                /\ AgentNeighbours(map', pos) <= 1 =>
                     At(size, map', pos) = TARGET
           /\ targets_alive' = targets_alive - Cardinality(removed)]_vars

\* an update() that captured a target
C7_Witness ==
  /\ last.op = "update" /\ last.ok
  /\ targets_alive = last.alive_before - 1
  /\ \E k \in 1 .. Len(targets) :
       /\ At(size, map, targets[k]) = EMPTY
       /\ AgentNeighbours(map, targets[k]) >= 2

\* C8: two Worlds constructed with the same size, nb_agents, nb_targets and
\* seed hold the same agent and target placement after their reset().
C8_ReproduciblePlacement ==
  (last.op = "reset" /\ last.ok /\ twin.done) =>
    /\ agents = twin.agents
    /\ targets = twin.targets

\* what get_state shows
ProjectedState ==
  [grid |-> ProjectedGrid, agent_position |-> state.agent_position]

\* C9: an update() that fails leaves the grid, the agents, targets_alive and
\* the projected state as they were before the call.
C9_NoPartialFailure ==
  [][(last'.op = "update" /\ ~last'.ok) =>
       /\ map' = map
       /\ agents' = agents
       /\ targets_alive' = targets_alive
       /\ ProjectedState' = ProjectedState]_vars

\* C10: when the entities do not fit the interior, or there is no interior
\* and something must be placed, reset() fails; and a reset() that returns
\* has placed every agent and every target requested.
C10_ConfigurationFailure ==
  last.op = "reset" =>
    /\ (\/ nb_agents + nb_targets > (size - 2) * (size - 2)
        \/ size < 3 /\ nb_agents + nb_targets >= 1) => ~last.ok
    /\ last.ok => /\ Cardinality(DOMAIN agents) = nb_agents
                  /\ Len(targets) = nb_targets

\* a reset() that failed on a grid with an interior that is too small
C10_Witness ==
  /\ last.op = "reset" /\ ~last.ok
  /\ size >= 3
  /\ nb_agents + nb_targets > (size - 2) * (size - 2)

\* the cells of grid m that hold a target
TargetCells(m) == {n \in 1 .. Len(m) : m[n] = TARGET}

\* C11: no update(), whatever its joint action, puts a TARGET marker on a
\* cell that did not hold one before the tick: between two resets the set of
\* target cells only shrinks, and no target changes cell.
C11_TargetsOnlyShrink ==
  [][last'.op = "update" => TargetCells(map') \subseteq TargetCells(map)]_vars

\* an update() that captured one of two targets and left the other in place
C11_Witness ==
  /\ last.op = "update" /\ last.ok
  /\ last.alive_before = 2 /\ targets_alive = 1
  /\ Cardinality(TargetCells(map)) = 1

Ring == Cells(size) \ Interior

\* C13: after reset(), and after every update() that follows, every cell of
\* the outer ring holds EMPTY.
C13_RingAlwaysEmpty ==
  \A pos \in Ring : At(size, map, pos) = EMPTY

Directions == {UP, DOWN, LEFT, RIGHT}

\* C14: in a tick with two entries the agent of the first entry is resolved
\* against the grid before the tick and the agent of the second against the
\* grid as the first left it.  So the second agent moves into the cell the
\* first has just vacated; the first is blocked by the cell the second still
\* stands on, even when the second then leaves it; and when both aim at the
\* same empty cell the first gets it and the second stays.
C14_SequentialResolution ==
  [][(tick'.recorded /\ Len(tick'.joint_action) = 2) =>
       LET first == tick'.joint_action[1]
           second == tick'.joint_action[2]
           p1 == agents[first.agent_id].position
           p2 == agents[second.agent_id].position
           d1 == Destination(p1, first.action)
           d2 == Destination(p2, second.action)
           open1 == first.action \in Directions /\ BoundCheck(p1, first.action)
           open2 == second.action \in Directions /\ BoundCheck(p2, second.action)
           moves1 == open1 /\ At(size, map, d1) = EMPTY
           moves2 == /\ open2
                     /\ IF moves1 /\ d2 = p1 THEN TRUE
                        ELSE IF moves1 /\ d2 = d1 THEN FALSE
                        ELSE At(size, map, d2) = EMPTY
       IN  /\ agents'[first.agent_id].position = IF moves1 THEN d1 ELSE p1
           /\ agents'[second.agent_id].position = IF moves2 THEN d2 ELSE p2
           /\ (moves1 /\ open2 /\ d2 = p1) =>
                agents'[second.agent_id].position = p1
           /\ (open1 /\ d1 = p2) =>
                agents'[first.agent_id].position = p1
           /\ (moves1 /\ open2 /\ d2 = d1) =>
                /\ agents'[first.agent_id].position = d1
                /\ agents'[second.agent_id].position = p2]_vars

\* a recorded tick in which the second agent took the cell the first agent
\* had just left
C14_Witness ==
  /\ tick.recorded /\ Len(tick.joint_action) = 2
  /\ agents[tick.joint_action[2].agent_id].position =
       tick.before[tick.joint_action[1].agent_id]
  /\ agents[tick.joint_action[1].agent_id].position #
       tick.before[tick.joint_action[1].agent_id]

\* (reached as well) a recorded tick in which the first agent stayed because
\* the second still stood on its destination, and the second then moved off
C14_BlockedByLaterAgent ==
  /\ tick.recorded /\ Len(tick.joint_action) = 2
  /\ tick.joint_action[1].action \in Directions
  /\ Destination(tick.before[tick.joint_action[1].agent_id],
                 tick.joint_action[1].action) =
       tick.before[tick.joint_action[2].agent_id]
  /\ agents[tick.joint_action[2].agent_id].position #
       tick.before[tick.joint_action[2].agent_id]

\* (reached as well) a recorded tick in which both agents aimed at the same
\* empty cell and the first got it
C14_SameCell ==
  /\ tick.recorded /\ Len(tick.joint_action) = 2
  /\ tick.joint_action[2].action \in Directions
  /\ Destination(tick.before[tick.joint_action[2].agent_id],
                 tick.joint_action[2].action) =
       agents[tick.joint_action[1].agent_id].position
  /\ agents[tick.joint_action[1].agent_id].position #
       tick.before[tick.joint_action[1].agent_id]

\* the capture scan with the cells visited in a given order (a sequence of
\* buffer indices)
ScanIn(order, s, m, alive) ==
  LET scan[a \in [k : Nat, map : Seq({EMPTY, AGENT, TARGET}),
                  targets_alive : Int]] ==
        IF a.k > Len(order)
        THEN [map |-> a.map, targets_alive |-> a.targets_alive]
        ELSE IF /\ a.map[order[a.k]] = TARGET
                /\ agent_capture(<<(order[a.k] - 1) \div s,
                                   (order[a.k] - 1) % s>>, s, a.map)
             THEN scan[[k |-> a.k + 1,
                        map |-> [a.map EXCEPT ![order[a.k]] = EMPTY],
                        targets_alive |-> a.targets_alive - 1]]
             ELSE scan[[a EXCEPT !.k = a.k + 1]]
  IN  scan[[k |-> 1, map |-> m, targets_alive |-> alive]]

\* last cell first
ReverseOrder(s) == [k \in 1 .. (s * s) |-> s * s + 1 - k]

\* column by column
ColumnOrder(s) == [k \in 1 .. (s * s) |-> ((k - 1) % s) * s + ((k - 1) \div s) + 1]

\* C15: on any grid, a capture scan that follows another with no move in
\* between changes neither the grid nor targets_alive; and the scan gives
\* the same grid and counter when it visits the cells last to first or
\* column by column.
C15_ScanIdempotent ==
  /\ [][last'.op = "rescan" =>
          (map' = map /\ targets_alive' = targets_alive)]_vars
  /\ [](last.op = "grid" =>
          \A order \in {ReverseOrder(size), ColumnOrder(size)} :
            ScanIn(order, size, map, targets_alive) =
              _update_map(size, map, targets_alive))

\* a second scan, after a first one that captured a target and left another
\* target standing next to an agent
C15_Witness ==
  /\ last.op = "rescan"
  /\ targets_alive < nb_targets
  /\ \E pos \in Cells(size) :
       /\ At(size, map, pos) = TARGET
       /\ \E q \in Orthogonal(pos) : At(size, map, q) = AGENT

\* C16: a value of get_state that a caller keeps goes on showing the grid it
\* showed when it was read, whatever update() calls follow, and its grid and
\* its agent_position describe the same tick: the AGENT cells of its grid
\* are the positions in its agent_position.
C16_ProjectionIsSnapshot ==
  held.taken =>
    /\ HeldGrid = held.grid
    /\ {n \in 1 .. Len(HeldGrid) : HeldGrid[n] = AGENT} =
         {Idx(size, held.state.agent_position[a]) :
            a \in DOMAIN held.state.agent_position}

\* the cells of grid m that hold an agent
AgentCells(m) == {n \in 1 .. Len(m) : m[n] = AGENT}

\* grid and entities agree: the AGENT cells are the nb_agents stored
\* positions, and there are targets_alive TARGET cells
GridMatchesEntities ==
  /\ Cardinality(AgentCells(map)) = nb_agents
  /\ AgentCells(map) = {Idx(size, agents[a].position) : a \in DOMAIN agents}
  /\ Cardinality(TargetCells(map)) = targets_alive
  /\ Cardinality(NonEmptyCells) = nb_agents + targets_alive

\* a reset() has completed on this World: it holds the agents and targets
\* of a placement (a World that asks for no agent and no target holds them
\* from its construction)
Populated ==
  /\ Cardinality(DOMAIN agents) = nb_agents
  /\ Len(targets) = nb_targets

\* C17 (as stated): in every state reached by a completed reset() or
\* update(), grid and entities agree.
C17_GridMatchesAfterAnyCall ==
  (last.op \in {"reset", "update"} /\ last.ok) => GridMatchesEntities

\* C17 (amended): once a reset() has completed, in the state it returns in
\* and in every state an update() leaves afterwards, grid and entities
\* agree.
C17_GridMatchesOncePopulated ==
  (last.op \in {"reset", "update"} /\ Populated) => GridMatchesEntities

\* after a reset() that placed two agents and two targets, an update() that
\* left one target and an agent on the ring
C17_Witness ==
  /\ last.op = "update" /\ last.ok /\ Populated
  /\ nb_agents = 2 /\ nb_targets = 2 /\ targets_alive = 1
  /\ \E a \in DOMAIN agents : agents[a].position \in Ring

\* every entry of the joint action is NOOP (none, for the empty one)
AllNoop(joint_action) ==
  \A k \in 1 .. Len(joint_action) : joint_action[k].action = NOOP

\* C18: an update() whose joint action is empty or gives NOOP to every
\* agent it names, made on a World as its construction, a reset() or a
\* completed update() left it, changes neither the grid, nor any agent, nor
\* targets_alive.
C18_IdleTickIsIdentity ==
  [][(tick'.recorded /\ AllNoop(tick'.joint_action)) =>
       /\ last'.ok
       /\ map' = map
       /\ agents' = agents
       /\ targets_alive' = targets_alive]_vars

\* a recorded tick that gave NOOP to both agents while a live target stood
\* next to one of them
C18_Witness ==
  /\ tick.recorded /\ Len(tick.joint_action) = 2
  /\ AllNoop(tick.joint_action)
  /\ \E a \in DOMAIN agents :
       \E q \in Orthogonal(agents[a].position) : At(size, map, q) = TARGET

\* |row difference| + |column difference|
Manhattan(p, q) ==
  (IF p[1] >= q[1] THEN p[1] - q[1] ELSE q[1] - p[1]) +
  (IF p[2] >= q[2] THEN p[2] - q[2] ELSE q[2] - p[2])

\* the action code the joint action gives agent n (NOOP when n is not a key)
CodeFor(joint_action, n) ==
  IF \E k \in 1 .. Len(joint_action) : joint_action[k].agent_id = n
  THEN joint_action[CHOOSE k \in 1 .. Len(joint_action) :
                      joint_action[k].agent_id = n].action
  ELSE NOOP

\* C19: in one update() an agent that is not a key of the joint action, or
\* whose code is not one of 1..4, keeps its position; every agent ends at
\* most one cell (Manhattan distance) from where it stood; and the agents'
\* names and ids stay as they were.
C19_TickFrame ==
  [][tick'.recorded =>
       /\ DOMAIN agents' = DOMAIN agents
       /\ \A n \in DOMAIN agents :
            /\ agents'[n].id = agents[n].id
            /\ Manhattan(agents'[n].position, agents[n].position) <= 1
            /\ CodeFor(tick'.joint_action, n) \notin Directions =>
                 agents'[n].position = agents[n].position]_vars

\* a recorded tick that moved the one agent it named and gave the other
\* agent no entry
C19_Witness ==
  /\ tick.recorded /\ Len(tick.joint_action) = 1
  /\ Cardinality(DOMAIN agents) = 2
  /\ agents[tick.joint_action[1].agent_id].position #
       tick.before[tick.joint_action[1].agent_id]

\* (reached as well) a recorded tick that moved one agent and gave the other
\* a code outside the enumeration
C19_OtherCode ==
  /\ tick.recorded /\ Len(tick.joint_action) = 2
  /\ tick.joint_action[2].action = RIGHT + 1
  /\ agents[tick.joint_action[1].agent_id].position #
       tick.before[tick.joint_action[1].agent_id]

\* C20: after an update() that captured a target, the target collection
\* holds the live targets only: it has targets_alive entries, each on a
\* cell that holds TARGET.
C20_TargetsTrackLive ==
  (last.op = "update" /\ last.ok /\ targets_alive < last.alive_before) =>
    /\ Len(targets) = targets_alive
    /\ \A k \in 1 .. Len(targets) : At(size, map, targets[k]) = TARGET

====
